---- MODULE Spec2Model ----
(***************************************************************************)
(* Model of the analytics server of src/app/main.py: an SQLite event log   *)
(* (table "events"), the two FastAPI handlers process_event and            *)
(* get_reports, pydantic validation of their request bodies and the        *)
(* start-up schema creation.                                               *)
(*                                                                         *)
(* Time is counted in ticks, TicksPerSec ticks to the second (the          *)
(* microsecond resolution of datetime, scaled down).  A datetime is a tick *)
(* in MinTick..MaxDatetimeTick, the analogue of datetime.min..datetime.max.*)
(* Strings that the code compares (the ISO timestamps) are sequences of    *)
(* character codes, compared as SQLite's BINARY collation compares them.   *)
(* The date and time-of-day fields of the ISO format, all fixed-width and  *)
(* zero-padded, most significant first, are modelled by one zero-padded    *)
(* field of SecWidth decimal digits holding the whole seconds.             *)
(***************************************************************************)
EXTENDS Integers, Sequences, FiniteSets, TLC

\* ------------------------------------------------------------------ bounds
\* the scale of the time axis and of the encoding, the clock at start, how far
\* the clock runs and how many requests arrive
TicksPerSec == 2
SecWidth == 2
FracWidth == 2
StartSec == 9
RunTicks == 2
MaxRequests == 3

Procs == {1, 2}
Users == {"u1", "u2"}
EventNames == {"login"}
LastSecondsValues == {-1, 0, 1, 20}

\* ------------------------------------------------------- character codes
CharPlus == 43
CharDot == 46
CharZero == 48
CharColon == 58

\* -------------------------------------------------------------- datetime
RECURSIVE Pow10(_)
Pow10(n) == IF n = 0 THEN 1 ELSE 10 * Pow10(n - 1)

MinTick == 0
MaxDatetimeTick == Pow10(SecWidth) * TicksPerSec - 1
StartTick == StartSec * TicksPerSec
MaxTick == StartTick + RunTicks

\* d zero-padded to width decimal digits, as character codes
RECURSIVE Digits(_, _)
Digits(d, width) ==
    IF width = 0 THEN <<>>
    ELSE Append(Digits(d \div 10, width - 1), CharZero + (d % 10))

\* the digits of n without padding (at least one digit)
RECURSIVE DigitsUnpadded(_)
DigitsUnpadded(n) ==
    IF n < 10 THEN <<CharZero + n>>
    ELSE Append(DigitsUnpadded(n \div 10), CharZero + (n % 10))

\* the "+00:00" of an aware UTC datetime
UtcOffset == <<CharPlus, CharZero, CharZero, CharColon, CharZero, CharZero>>

FracOf(t) == ((t % TicksPerSec) * Pow10(FracWidth)) \div TicksPerSec

\* faulty variants of Isoformat: the seconds are not zero-padded; the seconds
\* wrap around like the hour of a 12-hour clock
IsoformatUnpadded(t) ==
    DigitsUnpadded(t \div TicksPerSec)
      \o (IF t % TicksPerSec = 0 THEN <<>> ELSE <<CharDot>> \o Digits(FracOf(t), FracWidth))
      \o UtcOffset
IsoformatWrapped(t) ==
    Digits((t \div TicksPerSec) % Pow10(SecWidth - 1), SecWidth)
      \o (IF t % TicksPerSec = 0 THEN <<>> ELSE <<CharDot>> \o Digits(FracOf(t), FracWidth))
      \o UtcOffset

\* datetime.isoformat(): the sub-second part is left out when it is zero
Isoformat(t) ==
    Digits(t \div TicksPerSec, SecWidth)
      \o (IF t % TicksPerSec = 0 THEN <<>> ELSE <<CharDot>> \o Digits(FracOf(t), FracWidth))
      \o UtcOffset

RECURSIVE DigitsValue(_)
DigitsValue(s) ==
    IF s = <<>> THEN 0
    ELSE 10 * DigitsValue(SubSeq(s, 1, Len(s) - 1)) + (s[Len(s)] - CharZero)

\* datetime.fromisoformat(), as an instant in ticks: the tick whose sub-second
\* digits these are
Fromisoformat(s) ==
    DigitsValue(SubSeq(s, 1, SecWidth)) * TicksPerSec
      + (IF s[SecWidth + 1] = CharDot
         THEN (DigitsValue(SubSeq(s, SecWidth + 2, SecWidth + 1 + FracWidth)) * TicksPerSec
                 + Pow10(FracWidth) - 1) \div Pow10(FracWidth)
         ELSE 0)

RECURSIVE StrLessFrom(_, _, _)
\* memcmp from position i on; when one string ends first, the shorter is less
StrLessFrom(a, b, i) ==
    IF i > Len(b) THEN FALSE
    ELSE IF i > Len(a) THEN TRUE
    ELSE IF a[i] # b[i] THEN a[i] < b[i]
    ELSE StrLessFrom(a, b, i + 1)
\* SQLite's BINARY collation on TEXT
StrLess(a, b) == StrLessFrom(a, b, 1)
StrGeq(a, b) == ~StrLess(a, b)

\* ----------------------------------------------------------- JSON values
StrVal(s) == [t |-> "str", v |-> s]
Missing == [t |-> "missing", v |-> ""]
IntVal == [t |-> "int", v |-> "12345"]
ListVal == [t |-> "list", v |-> "invalid_list"]
IntSeconds(n) == [t |-> "int", n |-> n]
NoSeconds == [t |-> "missing", n |-> 0]

\* request bodies posted to /process_event: the well-formed ones and the
\* malformed ones of tests/test_server.py
GoodEventBodies ==
    [userid : {StrVal(u) : u \in Users}, eventname : {StrVal(e) : e \in EventNames},
     lastseconds : {NoSeconds}]
BadEventBodies ==
    {[userid |-> Missing, eventname |-> StrVal("login"), lastseconds |-> NoSeconds],
     [userid |-> StrVal("u1"), eventname |-> Missing, lastseconds |-> NoSeconds],
     [userid |-> Missing, eventname |-> Missing, lastseconds |-> NoSeconds],
     [userid |-> IntVal, eventname |-> StrVal("login"), lastseconds |-> NoSeconds],
     [userid |-> StrVal("u1"), eventname |-> ListVal, lastseconds |-> NoSeconds]}
EventBodies == GoodEventBodies \cup BadEventBodies
\* request bodies posted to /get_reports
GoodReportBodies ==
    [userid : {StrVal(u) : u \in Users}, eventname : {Missing},
     lastseconds : {IntSeconds(n) : n \in LastSecondsValues}]
BadReportBodies ==
    {[userid |-> StrVal("u1"), eventname |-> Missing, lastseconds |-> NoSeconds],
     [userid |-> Missing, eventname |-> Missing, lastseconds |-> IntSeconds(0)]}
ReportBodies == GoodReportBodies \cup BadReportBodies
NoBody == [userid |-> Missing, eventname |-> Missing, lastseconds |-> NoSeconds]

\* faulty variant of ValidEventInput: only userid is checked
ValidEventInputUseridOnly(body) == body.userid.t = "str"

\* class EventInput(BaseModel): userid: str, eventname: str
ValidEventInput(body) == body.userid.t = "str" /\ body.eventname.t = "str"

\* class ReportInput(BaseModel): lastseconds: int, userid: str
ValidReportInput(body) == body.lastseconds.t = "int" /\ body.userid.t = "str"

\* ------------------------------------------------------------- responses
Resp(code, status, detail, u, e, ts, evs) ==
    [code |-> code, status |-> status, detail |-> detail, userid |-> u,
     eventname |-> e, eventtimestamputc |-> ts, events |-> evs]
NoResp == Resp(0, "", "", "", "", <<>>, <<>>)
\* pydantic's rejection of a request body
ValidationError == Resp(422, "", "validation error", "", "", <<>>, <<>>)
\* an exception that leaves a handler: the framework's plain 500
InternalServerError == Resp(500, "", "Internal Server Error", "", "", <<>>, <<>>)
\* raise HTTPException(status_code=500, detail=str(e))
HTTPException500(e) == Resp(500, "", e, "", "", <<>>, <<>>)
EventStored(u, e, ts) == Resp(200, "success", "", u, e, ts, <<>>)
ReportOutput(evs) == Resp(200, "success", "", "", "", <<>>, evs)

\* texts of the exceptions the handlers can meet
NoSuchTable == "no such table: events"
DateOutOfRange == "date value out of range"
CannotOpen == "unable to open database file"
DatabaseLocked == "database is locked"
DiskIOError == "disk I/O error"
StorageErrors == {NoSuchTable, CannotOpen, DatabaseLocked, DiskIOError}
\* the calls of process_event and of get_reports that can raise
InsertFailurePoints == {"connect", "execute", "commit"}
SelectFailurePoints == {"connect", "execute", "fetchall"}
StorageErrorAt(at) ==
    IF at = "connect" THEN CannotOpen
    ELSE IF at = "execute" THEN DatabaseLocked ELSE DiskIOError

\* ------------------------------------------------------------- the store
\* faulty variant of NextId: the key of the newest row is used again
NextIdReused(seq) == IF seq = 0 THEN 1 ELSE seq

\* id INTEGER PRIMARY KEY AUTOINCREMENT: one more than the largest id ever used
NextId(seq) == seq + 1

\* INSERT INTO events (eventtimestamputc, userid, eventname) VALUES (?, ?, ?)
InsertRow(tbl, id, ts, u, e) ==
    Append(tbl, [id |-> id, eventtimestamputc |-> ts, userid |-> u, eventname |-> e])

\* faulty variants of RowMatches: the bound is exclusive; the user is not compared
RowMatchesStrict(row, u, thr) == row.userid = u /\ StrLess(thr, row.eventtimestamputc)
RowMatchesAnyUser(row, u, thr) == StrGeq(row.eventtimestamputc, thr)

\* WHERE userid = ? AND eventtimestamputc >= ?
RowMatches(row, u, thr) == row.userid = u /\ StrGeq(row.eventtimestamputc, thr)

RECURSIVE SelectRows(_, _, _)
\* SELECT eventtimestamputc, userid, eventname FROM events WHERE ..., then
\* the list comprehension that builds the response's events
SelectRows(tbl, u, thr) ==
    IF tbl = <<>> THEN <<>>
    ELSE LET rest == SelectRows(SubSeq(tbl, 1, Len(tbl) - 1), u, thr)
             row == tbl[Len(tbl)]
         IN  IF RowMatches(row, u, thr)
             THEN Append(rest, [eventtimestamputc |-> row.eventtimestamputc,
                                userid |-> row.userid, eventname |-> row.eventname])
             ELSE rest

\* datetime.now(timezone.utc) - timedelta(seconds=lastseconds)
TimeThreshold(now, lastseconds) == now - lastseconds * TicksPerSec
\* the subtraction raises OverflowError outside datetime.min..datetime.max
Representable(t) == MinTick <= t /\ t <= MaxDatetimeTick

\* ----------------------------------------------------------------- state
VARIABLES
    clock,        \* the server's UTC clock, in ticks
    tableExists,  \* whether events.db holds the table "events"
    events,       \* the rows of the table, in rowid order
    seqno,        \* sqlite_sequence: the largest id ever assigned
    openConns,    \* connections opened by handlers and not closed
    wk,           \* per request slot: the handler's position, locals and response
    hist,         \* per row: when its timestamp was read, and what was committed then
    served        \* the number of requests received

vars == <<clock, tableExists, events, seqno, openConns, wk, hist, served>>

\* pc: where the handler is; op, req: the request; now: the clock reading;
\* str: event_timestamp or time_threshold_str; seen: the largest id committed
\* when the clock was read; err: the exception raised; resp: the response
Worker(pc, op, req, now, str, seen, err, resp) ==
    [pc |-> pc, op |-> op, req |-> req, now |-> now, str |-> str,
     seen |-> seen, err |-> err, resp |-> resp]
IdleWorker == Worker("idle", "none", NoBody, 0, <<>>, 0, "", NoResp)
\* a handler that has answered: its locals are gone
Answered(w, err, resp) == Worker("idle", w.op, w.req, 0, <<>>, 0, err, resp)


Init ==
    /\ clock = StartTick
    /\ tableExists = FALSE
    /\ events = <<>>
    /\ seqno = 0
    /\ openConns = 0
    /\ wk = [p \in Procs |-> IdleWorker]
    /\ hist = <<>>
    /\ served = 0

\* the server clock advances
Tick ==
    /\ clock < MaxTick
    /\ clock' = clock + 1
    /\ UNCHANGED <<tableExists, events, seqno, openConns, wk, hist, served>>

\* create_table_if_not_exists(): CREATE TABLE IF NOT EXISTS events (...)
CreateTableIfNotExists ==
    /\ tableExists' = TRUE
    /\ UNCHANGED <<clock, events, seqno, openConns, wk, hist, served>>

\* a request arrives and is taken by the first idle slot
Receive(p) ==
    /\ wk[p].pc = "idle"
    /\ \A q \in Procs : q < p => wk[q].pc # "idle"
    /\ served < MaxRequests
    /\ served' = served + 1

\* POST /process_event with a body EventInput does not accept
ProcessEventRejected(p, body) ==
    /\ Receive(p)
    /\ ~ValidEventInput(body)
    /\ wk' = [wk EXCEPT ![p] =
                Worker("idle", "process_event", body, 0, <<>>, 0, "", ValidationError)]
    /\ UNCHANGED <<clock, tableExists, events, seqno, openConns, hist>>

\* process_event, line 75: event_timestamp = datetime.now(timezone.utc).isoformat()
ProcessEventNow(p, body) ==
    /\ Receive(p)
    /\ ValidEventInput(body)
    /\ wk' = [wk EXCEPT ![p] =
                Worker("inserting", "process_event", body, clock, Isoformat(clock),
                       seqno, "", NoResp)]
    /\ UNCHANGED <<clock, tableExists, events, seqno, openConns, hist>>

\* process_event, lines 77-95: connect, INSERT, commit, close, return
ProcessEventInsert(p) ==
    /\ wk[p].pc = "inserting"
    /\ IF tableExists
       THEN /\ events' = InsertRow(events, NextId(seqno), wk[p].str,
                                   wk[p].req.userid.v, wk[p].req.eventname.v)
            /\ seqno' = NextId(seqno)
            /\ hist' = Append(hist, [now |-> wk[p].now, seen |-> wk[p].seen])
            /\ wk' = [wk EXCEPT ![p] =
                        Answered(wk[p], "", EventStored(wk[p].req.userid.v,
                                                        wk[p].req.eventname.v, wk[p].str))]
            /\ UNCHANGED openConns
       ELSE \* cursor.execute raises; nothing catches it; conn.close() is not reached
            /\ wk' = [wk EXCEPT ![p] = Answered(wk[p], NoSuchTable, InternalServerError)]
            /\ openConns' = openConns + 1
            /\ UNCHANGED <<events, seqno, hist>>
    /\ UNCHANGED <<clock, tableExists, served>>

\* POST /get_reports with a body ReportInput does not accept
GetReportsRejected(p, body) ==
    /\ Receive(p)
    /\ ~ValidReportInput(body)
    /\ wk' = [wk EXCEPT ![p] =
                Worker("idle", "get_reports", body, 0, <<>>, 0, "", ValidationError)]
    /\ UNCHANGED <<clock, tableExists, events, seqno, openConns, hist>>

\* get_reports, lines 106-107: the threshold and its string
GetReportsThreshold(p, body) ==
    /\ Receive(p)
    /\ ValidReportInput(body)
    /\ LET thr == TimeThreshold(clock, body.lastseconds.n)
       IN  IF Representable(thr)
           THEN wk' = [wk EXCEPT ![p] =
                         Worker("selecting", "get_reports", body, clock, Isoformat(thr),
                                seqno, "", NoResp)]
           ELSE \* the subtraction raises OverflowError
                wk' = [wk EXCEPT ![p] =
                         Worker("except", "get_reports", body, clock, <<>>, seqno,
                                DateOutOfRange, NoResp)]
    /\ UNCHANGED <<clock, tableExists, events, seqno, openConns, hist>>

\* get_reports, lines 109-130: connect, SELECT, fetchall, close, return
GetReportsSelect(p) ==
    /\ wk[p].pc = "selecting"
    /\ IF tableExists
       THEN /\ wk' = [wk EXCEPT ![p] =
                        Answered(wk[p], "", ReportOutput(
                            SelectRows(events, wk[p].req.userid.v, wk[p].str)))]
            /\ UNCHANGED openConns
       ELSE \* cursor.execute raises; conn.close() is skipped
            /\ wk' = [wk EXCEPT ![p].pc = "except", ![p].err = NoSuchTable]
            /\ openConns' = openConns + 1
    /\ UNCHANGED <<clock, tableExists, events, seqno, hist, served>>

\* get_reports, lines 132-133: except Exception as e: raise HTTPException(500, str(e))
GetReportsExcept(p) ==
    /\ wk[p].pc = "except"
    /\ wk' = [wk EXCEPT ![p] = Answered(wk[p], wk[p].err, HTTPException500(wk[p].err))]
    /\ UNCHANGED <<clock, tableExists, events, seqno, openConns, hist, served>>

\* process_event when sqlite3 raises at connect, execute or commit
ProcessEventStorageFails(p, at) ==
    /\ wk[p].pc = "inserting"
    /\ wk' = [wk EXCEPT ![p] = Answered(wk[p], StorageErrorAt(at), InternalServerError)]
    /\ openConns' = IF at = "connect" THEN openConns ELSE openConns + 1
    /\ UNCHANGED <<clock, tableExists, events, seqno, hist, served>>

\* get_reports when sqlite3 raises at connect, execute or fetchall
GetReportsStorageFails(p, at) ==
    /\ wk[p].pc = "selecting"
    /\ wk' = [wk EXCEPT ![p].pc = "except", ![p].err = StorageErrorAt(at)]
    /\ openConns' = IF at = "connect" THEN openConns ELSE openConns + 1
    /\ UNCHANGED <<clock, tableExists, events, seqno, hist, served>>

\* a connection no handler closed is closed when the runtime finalizes the
\* unreferenced sqlite3.Connection, at some time after the response
ConnectionFinalized ==
    /\ openConns > 0
    /\ openConns' = openConns - 1
    /\ UNCHANGED <<clock, tableExists, events, seqno, wk, hist, served>>

Next ==
    \/ Tick
    \/ CreateTableIfNotExists
    \/ \E p \in Procs, body \in EventBodies : ProcessEventRejected(p, body)
    \/ \E p \in Procs, body \in EventBodies : ProcessEventNow(p, body)
    \/ \E p \in Procs : ProcessEventInsert(p)
    \/ \E p \in Procs, body \in ReportBodies : GetReportsRejected(p, body)
    \/ \E p \in Procs, body \in ReportBodies : GetReportsThreshold(p, body)
    \/ \E p \in Procs : GetReportsSelect(p)
    \/ \E p \in Procs : GetReportsExcept(p)
    \/ ConnectionFinalized

NextFault ==
    \/ Next
    \/ \E p \in Procs, at \in InsertFailurePoints : ProcessEventStorageFails(p, at)
    \/ \E p \in Procs, at \in SelectFailurePoints : GetReportsStorageFails(p, at)

\* the server on a store that fails only when the table is absent
Spec == Init /\ [][Next]_vars
\* the server on a store whose calls can also fail
SpecFault == Init /\ [][NextFault]_vars

TypeOK ==
    /\ clock \in StartTick..MaxTick
    /\ tableExists \in BOOLEAN
    /\ Len(events) <= MaxRequests
    /\ seqno \in 0..MaxRequests
    /\ openConns \in 0..MaxRequests
    /\ served \in 0..MaxRequests
    /\ \A p \in Procs : wk[p].pc \in {"idle", "inserting", "selecting", "except"}

\* ------------------------------------------------------------ properties
RowIndices == 1..Len(events)
\* what get_reports returns of a stored row
Projection(row) ==
    [eventtimestamputc |-> row.eventtimestamputc, userid |-> row.userid,
     eventname |-> row.eventname]
InResponse(resp, row) == \E j \in 1..Len(resp.events) : resp.events[j] = Projection(row)
\* a get_reports request of slot p produces its response in this step
QueryAnswers(p) ==
    /\ wk[p].op = "get_reports"
    /\ wk[p].pc \in {"selecting", "except"}
    /\ wk'[p].pc = "idle"
\* the instant a stored timestamp denotes
RowTime(i) == Fromisoformat(events[i].eventtimestamputc)
\* the instants the server holds, each with the string it was encoded to
Instants ==
    {[t |-> hist[i].now, s |-> events[i].eventtimestamputc] : i \in RowIndices}
      \cup {[t |-> wk[p].now, s |-> wk[p].str] : p \in {q \in Procs : wk[q].pc = "inserting"}}
      \cup {[t |-> TimeThreshold(wk[p].now, wk[p].req.lastseconds.n), s |-> wk[p].str] :
               p \in {q \in Procs : wk[q].pc = "selecting"}}
SubSecond(t) == t % TicksPerSec

\* C1: round trip. When a query answers, every row of its user that was committed
\* before the query began and whose timestamp lies within lastseconds of the
\* query's clock reading is in a successful response, with the stored timestamp.
C1_RoundTrip ==
    [][\A p \in Procs : QueryAnswers(p) =>
         \A i \in RowIndices :
            ( /\ events[i].id <= wk[p].seen
              /\ events[i].userid = wk[p].req.userid.v
              /\ wk[p].req.lastseconds.n * TicksPerSec >= wk[p].now - RowTime(i) )
            => /\ wk'[p].resp.code = 200
               /\ wk'[p].resp.status = "success"
               /\ InResponse(wk'[p].resp, events[i])]_vars

\* C2: query exactness. A successful get_reports(u, w) whose clock reading is now
\* returns exactly the stored rows of user u whose timestamp is at or after
\* now - w, each once.
C2_QueryExact ==
    [][\A p \in Procs :
         (QueryAnswers(p) /\ wk'[p].resp.code = 200) =>
            LET thr == TimeThreshold(wk[p].now, wk[p].req.lastseconds.n)
                u == wk[p].req.userid.v
                wanted == {i \in RowIndices : events[i].userid = u /\ RowTime(i) >= thr}
                got == wk'[p].resp.events
            IN  /\ Len(got) = Cardinality(wanted)
                /\ \A i \in wanted : InResponse(wk'[p].resp, events[i])
                /\ \A j \in 1..Len(got) :
                      \E i \in wanted : got[j] = Projection(events[i])]_vars
\* a query has answered with one row of its user and left an older one out
C2_Witness ==
    \E p \in Procs, i, j \in RowIndices :
        /\ wk[p].op = "get_reports" /\ wk[p].pc = "idle" /\ wk[p].resp.code = 200
        /\ i < j
        /\ events[i].userid = wk[p].req.userid.v
        /\ events[j].userid = wk[p].req.userid.v
        /\ InResponse(wk[p].resp, events[j])
        /\ ~InResponse(wk[p].resp, events[i])

Malformed(body) == body.userid.t # "str" \/ body.eventname.t # "str"
\* C3: validation before store. A submit request that lacks userid or eventname
\* or carries a non-string in either is answered 422 at once and leaves the
\* table, its rows and its id sequence as they were.
C3_ValidationBeforeStore ==
    [][\A p \in Procs :
         (wk'[p] # wk[p] /\ wk'[p].op = "process_event" /\ Malformed(wk'[p].req)) =>
            /\ wk'[p].pc = "idle"
            /\ wk'[p].resp.code = 422
            /\ events' = events
            /\ seqno' = seqno
            /\ tableExists' = tableExists]_vars
\* a malformed submit has been rejected while the log holds a row
C3_Witness ==
    \E p \in Procs :
        /\ wk[p].op = "process_event" /\ Malformed(wk[p].req)
        /\ wk[p].resp.code = 422
        /\ Len(events) >= 1

\* C4: a query whose lastseconds is negative is never answered with success.
C4_NegativeWindowRejected ==
    \A p \in Procs :
        ( /\ wk[p].op = "get_reports" /\ wk[p].pc = "idle"
          /\ wk[p].req.lastseconds.t = "int" /\ wk[p].req.lastseconds.n < 0 )
        => wk[p].resp.code \in {422, 500}

\* C5: a query that met a storage failure is answered 500, never with success,
\* and the error description does not carry the text of the storage error.
C5_GenericStorageError ==
    \A p \in Procs :
        (wk[p].op = "get_reports" /\ wk[p].pc = "idle" /\ wk[p].err \in StorageErrors)
        => /\ wk[p].resp.code = 500
           /\ wk[p].resp.status # "success"
           /\ wk[p].resp.detail # wk[p].err

\* C6: append-only log with increasing ids. Every step keeps every stored row as
\* it was, and a row it adds has an id above every id stored before and unlike
\* any other id.
C6_AppendOnly ==
    [][/\ Len(events') >= Len(events)
       /\ \A i \in RowIndices : events'[i] = events[i]
       /\ \A j \in (Len(events) + 1)..Len(events') :
             /\ \A i \in RowIndices : events'[j].id > events[i].id
             /\ \A k \in 1..Len(events') : k # j => events'[k].id # events'[j].id]_vars
\* two rows are stored, in a created table, and a query has been answered
C6_Witness ==
    /\ Len(events) >= 2
    /\ tableExists
    /\ \E p \in Procs : wk[p].op = "get_reports" /\ wk[p].pc = "idle"

C8_LazySchema ==
    [][/\ \A p \in Procs :
            (wk[p].pc = "inserting" /\ wk'[p].pc = "idle" /\ ~tableExists) =>
               /\ tableExists'
               /\ wk'[p].resp.code = 200
               /\ Len(events') = Len(events) + 1
       /\ (tableExists' # tableExists) => events' = events]_vars

\* C9 as stated: id order is time order, for any two stored rows.
C9_IdOrderIsTimeOrder ==
    \A i, j \in RowIndices :
        events[i].id < events[j].id => RowTime(i) <= RowTime(j)
\* C9 amended: id order is time order for two rows whose requests did not
\* overlap, the earlier row being committed when the later request read the clock.
C9_SequentialOrder ==
    \A i, j \in RowIndices :
        (events[i].id < events[j].id /\ events[i].id <= hist[j].seen)
        => RowTime(i) <= RowTime(j)
\* two rows of requests that did not overlap, the second one later
C9_Witness ==
    \E i, j \in RowIndices :
        /\ events[i].id < events[j].id
        /\ events[i].id <= hist[j].seen
        /\ RowTime(i) < RowTime(j)

\* C10: when no request is being handled, no connection a handler opened is open.
C10_ConnectionsClosed ==
    (\A p \in Procs : wk[p].pc = "idle") => openConns = 0

====
